---- MODULE Spec2Model ----
(***************************************************************************)
(* airalab/robonomics: the two rosbag generators of the turtlesim          *)
(* liability example (genbag_string.py, genbag_twist.py) and the MQTT      *)
(* subscriber of digitaltwin2mqtt (mqttc.py).                              *)
(*                                                                         *)
(* SpecBag runs one of the two generator scripts, statement by statement.  *)
(* SpecSub runs the subscriber script and then the client library's        *)
(* blocking loop, which dispatches the two callbacks.                      *)
(***************************************************************************)
EXTENDS Integers, Sequences, FiniteSets, TLC

VARIABLES
    script,      \* which script this run executes
    pc,          \* the statement the script is at
    raised,      \* the statements that raised an exception, in order
    \* ---- bag writers
    opened,      \* rosbag.Bag(...) has returned a bag
    msg,         \* genbag_string.py: msg
    msg1,        \* genbag_twist.py: msg1
    msg2,        \* genbag_twist.py: msg2
    i,           \* genbag_twist.py: loop variable i (the range's last value)
    bag,         \* the bag.write calls that succeeded, in order
    writeCalls,  \* number of bag.write calls made (failed ones included)
    closeCalls,  \* number of bag.close calls made
    \* ---- subscriber
    argv,         \* sys.argv (argv[1] is sys.argv[0], the script's name)
    client,       \* the mqtt.Client and the callbacks registered on it
    mqtt_srv,     \* mqttc.py: mqtt_srv
    mqtt_port,    \* mqttc.py: mqtt_port
    connectCalls, \* the client.connect calls made, in order
    link,         \* the library's connection: "down", "connecting", "up"
    active,       \* the callback invocations dispatched and not yet returned
    nConnack,     \* CONNACK packets the loop has handled
    nOnConnect,   \* on_connect invocations run
    subscribes,   \* the client.subscribe calls made, in order
    delivered,    \* the messages dispatched to on_message, in order
    stdout        \* the print calls made, in order

bagVars == <<opened, msg, msg1, msg2, i, bag, writeCalls, closeCalls>>
subVars == <<argv, client, mqtt_srv, mqtt_port, connectCalls, link, active,
             nConnack, nOnConnect, subscribes, delivered, stdout>>
vars == <<script, pc, raised, bagVars, subVars>>

None == "None"

(***************************************************************************)
(* Python floats.  A non-negative double is held exactly, as the limbs     *)
(* (base 2^LimbBits, least significant first) of value * 2^FracBits; every *)
(* double the scripts compute is a multiple of 2^-FracBits.  Each float    *)
(* operation is the exact result rounded to MantBits significant bits,     *)
(* ties to even (IEEE 754 binary64, CPython's float).                      *)
(***************************************************************************)
MantBits == 53
LimbBits == 15
FracLimbs == 4
Base == 2 ^ LimbBits
FracBits == FracLimbs * LimbBits

RECURSIVE NatToLimbs(_)
NatToLimbs(n) == IF n = 0 THEN <<>> ELSE <<n % Base>> \o NatToLimbs(n \div Base)

RECURSIVE LimbsToNat(_)
LimbsToNat(a) == IF a = <<>> THEN 0 ELSE Head(a) + Base * LimbsToNat(Tail(a))

Zeros(k) == [j \in 1..k |-> 0]

\* bit j (0 the least significant) of a
Bit(a, j) == (a[(j \div LimbBits) + 1] \div (2 ^ (j % LimbBits))) % 2

\* number of significant bits (0 for zero)
BitLen(a) ==
    LET ones == {j \in 0..(Len(a) * LimbBits - 1) : Bit(a, j) = 1}
    IN  IF ones = {} THEN 0 ELSE 1 + CHOOSE m \in ones : \A j \in ones : j <= m

RECURSIVE AddLimbs(_, _, _)
AddLimbs(a, b, c) ==
    IF a = <<>> /\ b = <<>> THEN (IF c = 0 THEN <<>> ELSE <<c>>)
    ELSE LET x == IF a = <<>> THEN 0 ELSE Head(a)
             y == IF b = <<>> THEN 0 ELSE Head(b)
             s == x + y + c
         IN  <<s % Base>> \o AddLimbs(IF a = <<>> THEN <<>> ELSE Tail(a),
                                     IF b = <<>> THEN <<>> ELSE Tail(b),
                                     s \div Base)

\* a * n for n < Base
RECURSIVE MulLimb(_, _, _)
MulLimb(a, n, c) ==
    IF a = <<>> THEN NatToLimbs(c)
    ELSE LET s == Head(a) * n + c
         IN  <<s % Base>> \o MulLimb(Tail(a), n, s \div Base)

\* a * n, exactly
RECURSIVE MulNat(_, _)
MulNat(a, n) ==
    IF n < Base THEN MulLimb(a, n, 0)
    ELSE AddLimbs(MulLimb(a, n % Base, 0), <<0>> \o MulNat(a, n \div Base), 0)

\* long division of a by d < Base: <<quotient, remainder>>
RECURSIVE DivLimb(_, _)
DivLimb(a, d) ==
    IF a = <<>> THEN <<(<<>>), 0>>
    ELSE LET hi == DivLimb(Tail(a), d)
             r  == Base * hi[2] + Head(a)
         IN  <<(<<r \div d>>) \o hi[1], r % d>>

\* a with its k low bits cleared
ClearLow(a, k) ==
    [j \in 1..Len(a) |->
        IF j * LimbBits <= k THEN 0
        ELSE IF (j - 1) * LimbBits >= k THEN a[j]
        ELSE a[j] - (a[j] % (2 ^ (k - (j - 1) * LimbBits)))]

Pow2(k) == Zeros(k \div LimbBits) \o <<2 ^ (k % LimbBits)>>

\* round to MantBits significant bits, ties to even
RoundToDouble(a) ==
    LET L == BitLen(a) IN
    IF L <= MantBits THEN a
    ELSE LET k      == L - MantBits
             half   == Bit(a, k - 1) = 1
             sticky == \E j \in 0..(k - 2) : Bit(a, j) = 1
             odd    == Bit(a, k) = 1
             up     == half /\ (sticky \/ odd)
         IN  AddLimbs(ClearLow(a, k), IF up THEN Pow2(k) ELSE <<>>, 0)

\* float(n) for a non-negative int
IntToFloat(n) == Zeros(FracLimbs) \o NatToLimbs(n)

\* the double a decimal literal num/den denotes: the nearest double.  The
\* quotient is taken with one guard limb; a non-zero remainder is a sticky bit.
FloatLiteral(num, den) ==
    LET d == DivLimb(Zeros(FracLimbs + 1) \o NatToLimbs(num), den)
        q == IF d[2] = 0 \/ d[1][1] % 2 = 1 THEN d[1]
             ELSE [d[1] EXCEPT ![1] = @ + 1]
    IN  Tail(RoundToDouble(q))

\* x * n, x a float and n an int (converted exactly)
FloatMulInt(x, n) == RoundToDouble(MulNat(x, n))

\* n + x, n an int and x a float
FloatAddInt(n, x) == RoundToDouble(AddLimbs(IntToFloat(n), x, 0))

\* int(x): truncation
FloatToInt(x) == LimbsToNat(SubSeq(x, FracLimbs + 1, Len(x)))

\* x - int(x): exact in floating point
FloatFrac(x) == SubSeq(x, 1, IF Len(x) < FracLimbs THEN Len(x) ELSE FracLimbs)

NSecPerSec == 1000000000

\* rospy.Time.from_sec: secs = int(t); nsecs = int((t - secs) * 1000000000)
from_sec(x) ==
    [secs  |-> FloatToInt(x),
     nsecs |-> FloatToInt(FloatMulInt(FloatFrac(x), NSecPerSec))]

\* rospy.Time ordering
TimeLT(s, t) == s.secs < t.secs \/ (s.secs = t.secs /\ s.nsecs < t.nsecs)

\* t - s in nanoseconds, for stamps less than two seconds apart
NSecBetween(s, t) == (t.secs - s.secs) * NSecPerSec + (t.nsecs - s.nsecs)

(***************************************************************************)
(* Messages                                                                *)
(***************************************************************************)
Vector3(x, y, z) == <<x, y, z>>
Twist(linear, angular) == [linear |-> linear, angular |-> angular]
String(data) == [data |-> data]

StringScript == "genbag_string.py"
TwistScript == "genbag_twist.py"

StringTopic == "/turtle1/cmd"
TwistTopic == "/turtle1/cmd_vel"

\* genbag_string.py line 9
StringMsg == String("Dear turtle, please make a circle. Thanks!")
\* genbag_twist.py lines 10, 11
TwistMsg1 == Twist(Vector3(0, 0, 0), Vector3(0, 0, 0))
TwistMsg2 == Twist(Vector3(2, 0, 0), Vector3(0, 0, 2))

\* (variant) a stamp of 0.01 s
StringStampCentisecond == from_sec(FloatLiteral(1, 100))
\* genbag_string.py line 12: rospy.Time.from_sec(0.1)
StringStamp == from_sec(FloatLiteral(1, 10))
\* genbag_twist.py line 14: rospy.Time.from_sec(0)
FirstStamp == from_sec(IntToFloat(0))
\* (variant) the range taken from 1: rospy.Time.from_sec(1 + 0.01*(i + 1))
TwistStampOffByOne(k) == from_sec(FloatAddInt(1, FloatMulInt(FloatLiteral(1, 100), k + 1)))
\* genbag_twist.py line 16: rospy.Time.from_sec(1 + 0.01*i)
TwistStamp(k) == from_sec(FloatAddInt(1, FloatMulInt(FloatLiteral(1, 100), k)))
\* (variant) a closing stamp of 3 s, inside the span of the loop's stamps
LastStampEarly == from_sec(IntToFloat(3))
\* genbag_twist.py line 17: rospy.Time.from_sec(5)
LastStamp == from_sec(IntToFloat(5))

\* genbag_twist.py line 15: range(0, 239).  i is the value the range yielded
\* last, RangeStart - 1 as long as it has yielded none.
RangeStart == 0
RangeStop == 239
BeforeRange == RangeStart - 1
RangeNext(cur) == cur + 1
\* (variant) a range that also yields its stop value
RangeHasNextInclusive(cur) == RangeNext(cur) <= RangeStop
RangeHasNext(cur) == RangeNext(cur) < RangeStop

Written(topic, m, t) == [topic |-> topic, msg |-> m, t |-> t]

(***************************************************************************)
(* The bag writers, one statement per action.  Any library call may raise; *)
(* an exception outside the try block ends the script at once, one inside  *)
(* it runs the finally block first; one in the finally block ends the      *)
(* script.                                                                 *)
(***************************************************************************)
InitBagVars ==
    /\ opened = FALSE
    /\ msg = None /\ msg1 = None /\ msg2 = None
    /\ i = BeforeRange
    /\ bag = <<>>
    /\ writeCalls = 0
    /\ closeCalls = 0

\* the subscriber's state before mqttc.py line 17
InitSubVars ==
    /\ client = [created |-> FALSE, on_connect |-> None, on_message |-> None]
    /\ mqtt_srv = None
    /\ mqtt_port = [type |-> "NoneType", int |-> 0, str |-> ""]
    /\ connectCalls = <<>>
    /\ link = "down"
    /\ active = <<>>
    /\ nConnack = 0
    /\ nOnConnect = 0
    /\ subscribes = <<>>
    /\ delivered = <<>>
    /\ stdout = <<>>

InitBag ==
    /\ script \in {StringScript, TwistScript}
    /\ pc = "open"
    /\ raised = <<>>
    /\ InitBagVars
    /\ argv = <<script>>
    /\ InitSubVars

\* where the statement after the open is
AfterOpen == IF script = StringScript THEN "msg" ELSE "msg1"

\* bag = rosbag.Bag(path, 'w')
Open ==
    /\ pc = "open"
    /\ opened' = TRUE
    /\ pc' = AfterOpen
    /\ UNCHANGED <<script, raised, msg, msg1, msg2, i, bag, writeCalls, closeCalls, subVars>>

OpenRaises ==
    /\ pc = "open"
    /\ raised' = Append(raised, pc)
    /\ pc' = "done"
    /\ UNCHANGED <<script, bagVars, subVars>>

\* genbag_string.py line 9
ConstructMsg ==
    /\ pc = "msg"
    /\ msg' = StringMsg
    /\ pc' = "write"
    /\ UNCHANGED <<script, raised, opened, msg1, msg2, i, bag, writeCalls, closeCalls, subVars>>

\* genbag_twist.py line 10
ConstructMsg1 ==
    /\ pc = "msg1"
    /\ msg1' = TwistMsg1
    /\ pc' = "msg2"
    /\ UNCHANGED <<script, raised, opened, msg, msg2, i, bag, writeCalls, closeCalls, subVars>>

\* genbag_twist.py line 11
ConstructMsg2 ==
    /\ pc = "msg2"
    /\ msg2' = TwistMsg2
    /\ pc' = "write_first"
    /\ UNCHANGED <<script, raised, opened, msg, msg1, i, bag, writeCalls, closeCalls, subVars>>

\* the statements between the open and the try
BeforeTry == {"msg", "msg1", "msg2"}

\* where an exception raised at statement p sends the script: the message
\* constructors stand before the try, so nothing catches theirs
RaiseTarget(p) == IF p \in BeforeTry THEN "done" ELSE "close"

ConstructRaises ==
    /\ pc \in BeforeTry
    /\ raised' = Append(raised, pc)
    /\ pc' = RaiseTarget(pc)
    /\ UNCHANGED <<script, bagVars, subVars>>

\* bag.write(topic, m, t) returning normally, the script going on at `next`
Write(topic, m, t, next) ==
    /\ closeCalls = 0
    /\ bag' = Append(bag, Written(topic, m, t))
    /\ writeCalls' = writeCalls + 1
    /\ pc' = next

\* genbag_string.py line 12
WriteString ==
    /\ pc = "write"
    /\ Write(StringTopic, msg, StringStamp, "close")
    /\ UNCHANGED <<script, raised, opened, msg, msg1, msg2, i, closeCalls, subVars>>

\* genbag_twist.py line 14
WriteFirst ==
    /\ pc = "write_first"
    /\ Write(TwistTopic, msg1, FirstStamp, "for")
    /\ UNCHANGED <<script, raised, opened, msg, msg1, msg2, i, closeCalls, subVars>>

\* genbag_twist.py line 15: the for statement takes the next value of the range
ForNext ==
    /\ pc = "for"
    /\ RangeHasNext(i)
    /\ i' = RangeNext(i)
    /\ pc' = "body"
    /\ UNCHANGED <<script, raised, opened, msg, msg1, msg2, bag, writeCalls, closeCalls, subVars>>

\* genbag_twist.py line 15: the range is exhausted
ForDone ==
    /\ pc = "for"
    /\ ~RangeHasNext(i)
    /\ pc' = "write_last"
    /\ UNCHANGED <<script, raised, bagVars, subVars>>

\* genbag_twist.py line 16
WriteBody ==
    /\ pc = "body"
    /\ Write(TwistTopic, msg2, TwistStamp(i), "for")
    /\ UNCHANGED <<script, raised, opened, msg, msg1, msg2, i, closeCalls, subVars>>

\* genbag_twist.py line 17
WriteLast ==
    /\ pc = "write_last"
    /\ Write(TwistTopic, msg1, LastStamp, "close")
    /\ UNCHANGED <<script, raised, opened, msg, msg1, msg2, i, closeCalls, subVars>>

\* the statements of the try block: the writes and the for statement
WriteStatements == {"write", "write_first", "body", "write_last"}
InTry == WriteStatements \cup {"for"}

\* a statement of the try block raising before it calls bag.write (the for
\* statement, or a write statement while its stamp is computed): no write
\* call is made, the finally block runs next
TryRaises ==
    /\ pc \in InTry
    /\ raised' = Append(raised, pc)
    /\ pc' = RaiseTarget(pc)
    /\ UNCHANGED <<script, bagVars, subVars>>

\* a bag.write call raising: the finally block runs next
WriteRaises ==
    /\ pc \in WriteStatements
    /\ writeCalls' = writeCalls + 1
    /\ raised' = Append(raised, pc)
    /\ pc' = RaiseTarget(pc)
    /\ UNCHANGED <<script, opened, msg, msg1, msg2, i, bag, closeCalls, subVars>>

\* finally: bag.close() returning; a pending exception then propagates
Close ==
    /\ pc = "close"
    /\ closeCalls' = closeCalls + 1
    /\ pc' = "done"
    /\ UNCHANGED <<script, raised, opened, msg, msg1, msg2, i, bag, writeCalls, subVars>>

\* finally: an exception at the bag.close() statement before the call is made
\* (an interrupt, the lookup of bag.close): the script ends with the bag not
\* closed
FinallyRaises ==
    /\ pc = "close"
    /\ raised' = Append(raised, pc)
    /\ pc' = "done"
    /\ UNCHANGED <<script, bagVars, subVars>>

\* finally: bag.close() raising: the call was made, its exception ends the
\* script (after a pending one, if any)
CloseRaises ==
    /\ pc = "close"
    /\ closeCalls' = closeCalls + 1
    /\ raised' = Append(raised, pc)
    /\ pc' = "done"
    /\ UNCHANGED <<script, opened, msg, msg1, msg2, i, bag, writeCalls, subVars>>

NextBag ==
    \/ Open \/ OpenRaises
    \/ ConstructMsg \/ ConstructMsg1 \/ ConstructMsg2 \/ ConstructRaises
    \/ WriteString \/ WriteFirst \/ ForNext \/ ForDone \/ WriteBody \/ WriteLast
    \/ TryRaises \/ WriteRaises
    \/ FinallyRaises \/ Close \/ CloseRaises

SpecBag == InitBag /\ [][NextBag]_vars

(***************************************************************************)
(* Text.  A Python str or bytes value is the sequence of its character     *)
(* codes.                                                                  *)
(***************************************************************************)
LF == 10   \* "\n"
TAB == 9    \* "\t"
CR == 13   \* "\r"
DQUOTE == 34   \* '"'
SQUOTE == 39   \* "'"
BACKSLASH == 92   \* "\\"

\* "Connected with result code "
ConnectedText == <<67, 111, 110, 110, 101, 99, 116, 101, 100, 32, 119, 105, 116, 104, 32, 114, 101, 115, 117, 108, 116, 32, 99, 111, 100, 101, 32>>
\* "at topic"
AtTopicText == <<97, 116, 32, 116, 111, 112, 105, 99>>
\* " data: "
DataText == <<32, 100, 97, 116, 97, 58, 32>>
\* "digitaltwin"
DigitalTwin == <<100, 105, 103, 105, 116, 97, 108, 116, 119, 105, 110>>

Contains(text, sub) ==
    \E k \in 0..(Len(text) - Len(sub)) : SubSeq(text, k + 1, k + Len(sub)) = sub

\* the lines a print call of `text` puts on stdout: one more than the line
\* breaks in it
LineCount(text) == 1 + Cardinality({k \in 1..Len(text) : text[k] = LF})

\* str(n) for a non-negative int
RECURSIVE IntStr(_)
IntStr(n) == IF n < 10 THEN <<48 + n>> ELSE IntStr(n \div 10) \o <<48 + (n % 10)>>

HexDigit(d) == IF d < 10 THEN 48 + d ELSE 87 + d

\* repr() of a bytes object, which is what str() of one is in Python 3
BytesQuote(data) ==
    IF (\E k \in 1..Len(data) : data[k] = SQUOTE) /\ ~(\E k \in 1..Len(data) : data[k] = DQUOTE)
    THEN DQUOTE ELSE SQUOTE

BytesEscape(c, quote) ==
    IF c = quote \/ c = BACKSLASH THEN <<BACKSLASH, c>>
    ELSE IF c = TAB THEN <<BACKSLASH, 116>>
    ELSE IF c = LF THEN <<BACKSLASH, 110>>
    ELSE IF c = CR THEN <<BACKSLASH, 114>>
    ELSE IF c < 32 \/ c >= 127 THEN <<BACKSLASH, 120, HexDigit(c \div 16), HexDigit(c % 16)>>
    ELSE <<c>>

RECURSIVE BytesBody(_, _)
BytesBody(data, quote) ==
    IF data = <<>> THEN <<>>
    ELSE BytesEscape(Head(data), quote) \o BytesBody(Tail(data), quote)

BytesRepr(data) ==
    LET quote == BytesQuote(data)
    IN  <<98, quote>> \o BytesBody(data, quote) \o <<quote>>

\* a payload is a bytes object (paho under Python 3) or a str (Python 2)
Bytes(data) == [type |-> "bytes", data |-> data]
Str(data) == [type |-> "str", data |-> data]

\* str(payload)
PyStr(payload) == IF payload.type = "bytes" THEN BytesRepr(payload.data) ELSE payload.data

\* Python values of mqtt_port
PyInt(n) == [type |-> "int", int |-> n, str |-> ""]
PyString(t) == [type |-> "str", int |-> 0, str |-> t]

(***************************************************************************)
(* mqttc.py                                                                *)
(***************************************************************************)
SubScript == "mqttc.py"

DefaultHost == "localhost"
DefaultPort == 1883
KeepAlive == 60
SubscribeTopic == DigitalTwin

\* the command lines tried: up to MaxArgs positional arguments
MaxArgs == 3
CliArg(k) == IF k = 1 THEN "broker.example" ELSE IF k = 2 THEN "1884" ELSE "extra"
CommandLine(n) == <<SubScript>> \o [k \in 1..n |-> CliArg(k)]

\* sys.argv[k]
SysArgv(k) == argv[k + 1]

\* the traffic tried
MaxConnacks == 2
MaxMsgs == 2
RcSamples == {0, 5}
TopicSamples == {DigitalTwin, <<97, LF, 98>>}
DataSamples == {<<111, 110>>, <<97, LF, 98>>, <<SQUOTE, DQUOTE, BACKSLASH>>}
PayloadSamples == {Bytes(d) : d \in DataSamples} \cup {Str(d) : d \in DataSamples}
MsgSamples == [topic : TopicSamples, payload : PayloadSamples]

InitSub ==
    /\ script = SubScript
    /\ pc = "client"
    /\ raised = <<>>
    /\ InitBagVars
    /\ \E n \in 0..MaxArgs : argv = CommandLine(n)
    /\ InitSubVars

\* line 17: client = mqtt.Client()
NewClient ==
    /\ pc = "client"
    /\ client' = [client EXCEPT !.created = TRUE]
    /\ pc' = "set_on_connect"
    /\ UNCHANGED <<script, raised, bagVars, argv, mqtt_srv, mqtt_port, connectCalls,
                   link, active, nConnack, nOnConnect, subscribes, delivered, stdout>>

\* line 18: client.on_connect = on_connect
SetOnConnect ==
    /\ pc = "set_on_connect"
    /\ client' = [client EXCEPT !.on_connect = "on_connect"]
    /\ pc' = "set_on_message"
    /\ UNCHANGED <<script, raised, bagVars, argv, mqtt_srv, mqtt_port, connectCalls,
                   link, active, nConnack, nOnConnect, subscribes, delivered, stdout>>

\* line 19: client.on_message = on_message
SetOnMessage ==
    /\ pc = "set_on_message"
    /\ client' = [client EXCEPT !.on_message = "on_message"]
    /\ pc' = "defaults"
    /\ UNCHANGED <<script, raised, bagVars, argv, mqtt_srv, mqtt_port, connectCalls,
                   link, active, nConnack, nOnConnect, subscribes, delivered, stdout>>

\* lines 21-22
Defaults ==
    /\ pc = "defaults"
    /\ mqtt_srv' = DefaultHost
    /\ mqtt_port' = PyInt(DefaultPort)
    /\ pc' = "if_argv_1"
    /\ UNCHANGED <<script, raised, bagVars, argv, client, connectCalls,
                   link, active, nConnack, nOnConnect, subscribes, delivered, stdout>>

\* lines 24-25: if len(sys.argv) > 1: mqtt_srv = sys.argv[1]
IfArgv1 ==
    /\ pc = "if_argv_1"
    /\ mqtt_srv' = IF Len(argv) > 1 THEN SysArgv(1) ELSE mqtt_srv
    /\ pc' = "if_argv_2"
    /\ UNCHANGED <<script, raised, bagVars, argv, client, mqtt_port, connectCalls,
                   link, active, nConnack, nOnConnect, subscribes, delivered, stdout>>

\* (variant) the port taken from the host argument
PortFromArgvHost == PyString(SysArgv(1))

\* the value line 29 binds mqtt_port to: sys.argv[2] as it is, a str
PortFromArgv == PyString(SysArgv(2))

\* lines 27-29: if len(sys.argv) > 2: mqtt_srv = sys.argv[1]; mqtt_port = sys.argv[2]
IfArgv2 ==
    /\ pc = "if_argv_2"
    /\ mqtt_srv' = IF Len(argv) > 2 THEN SysArgv(1) ELSE mqtt_srv
    /\ mqtt_port' = IF Len(argv) > 2 THEN PortFromArgv ELSE mqtt_port
    /\ pc' = "connect"
    /\ UNCHANGED <<script, raised, bagVars, argv, client, connectCalls,
                   link, active, nConnack, nOnConnect, subscribes, delivered, stdout>>

ConnectCall == [host |-> mqtt_srv, port |-> mqtt_port, keepalive |-> KeepAlive]

\* line 31: client.connect(mqtt_srv, mqtt_port, 60) returning: the CONNECT
\* packet is out, the CONNACK is still to come
Connect ==
    /\ pc = "connect"
    /\ connectCalls' = Append(connectCalls, ConnectCall)
    /\ link' = "connecting"
    /\ pc' = "loop_forever"
    /\ UNCHANGED <<script, raised, bagVars, argv, client, mqtt_srv, mqtt_port,
                   active, nConnack, nOnConnect, subscribes, delivered, stdout>>

\* line 31: client.connect raising (no broker, bad port): the script ends
ConnectRaises ==
    /\ pc = "connect"
    /\ connectCalls' = Append(connectCalls, ConnectCall)
    /\ raised' = Append(raised, pc)
    /\ pc' = "done"
    /\ UNCHANGED <<script, bagVars, argv, client, mqtt_srv, mqtt_port,
                   link, active, nConnack, nOnConnect, subscribes, delivered, stdout>>

\* line 37: client.loop_forever() is entered; it does not return
LoopForever ==
    /\ pc = "loop_forever"
    /\ pc' = "loop"
    /\ UNCHANGED <<script, raised, bagVars, subVars>>

(***************************************************************************)
(* Inside loop_forever (lines 33-37): the loop reads a packet, calls the   *)
(* callback registered for it and goes on once the callback has returned;  *)
(* it reconnects when the connection is lost.                              *)
(***************************************************************************)
\* (variant) a loop that dispatches while a callback is still running
LoopIdleReentrant == pc = "loop"

\* the loop is between packets: it runs in the thread that called
\* loop_forever and no callback is running
LoopIdle == pc = "loop" /\ active = <<>>

Invocation(name, rc, m) == [name |-> name, rc |-> rc, msg |-> m]
NoMsg == [topic |-> <<>>, payload |-> Str(<<>>)]

\* a CONNACK arrives: on_connect(client, userdata, flags, rc) is called
RecvConnack ==
    /\ LoopIdle
    /\ link = "connecting"
    /\ nConnack < MaxConnacks
    /\ client.on_connect # None
    /\ \E rc \in RcSamples :
        /\ link' = IF rc = 0 THEN "up" ELSE "down"
        /\ active' = Append(active, Invocation(client.on_connect, rc, NoMsg))
    /\ nConnack' = nConnack + 1
    /\ UNCHANGED <<script, pc, raised, bagVars, argv, client, mqtt_srv, mqtt_port,
                   connectCalls, nOnConnect, subscribes, delivered, stdout>>

\* a PUBLISH arrives: on_message(client, userdata, msg) is called
RecvPublish ==
    /\ LoopIdle
    /\ link = "up"
    /\ Len(delivered) < MaxMsgs
    /\ client.on_message # None
    /\ \E m \in MsgSamples :
        /\ active' = Append(active, Invocation(client.on_message, 0, m))
        /\ delivered' = Append(delivered, m)
    /\ UNCHANGED <<script, pc, raised, bagVars, argv, client, mqtt_srv, mqtt_port,
                   connectCalls, link, nConnack, nOnConnect, subscribes, stdout>>

\* the connection is lost
ConnectionLost ==
    /\ LoopIdle
    /\ link = "up"
    /\ link' = "down"
    /\ UNCHANGED <<script, pc, raised, bagVars, argv, client, mqtt_srv, mqtt_port,
                   connectCalls, active, nConnack, nOnConnect, subscribes, delivered, stdout>>

\* the loop reconnects by itself; the script's connect call is not made again
Reconnect ==
    /\ LoopIdle
    /\ link = "down"
    /\ nConnack < MaxConnacks
    /\ link' = "connecting"
    /\ UNCHANGED <<script, pc, raised, bagVars, argv, client, mqtt_srv, mqtt_port,
                   connectCalls, active, nConnack, nOnConnect, subscribes, delivered, stdout>>

Printed(by, text) == [by |-> by, text |-> text]
Subscribed(by, topic) == [by |-> by, topic |-> topic]

\* lines 5-11: print("Connected with result code "+str(rc)); client.subscribe('digitaltwin')
OnConnectSubscribes(inv) == <<Subscribed(inv.name, SubscribeTopic)>>

on_connect ==
    /\ active # <<>>
    /\ \E k \in DOMAIN active :
        /\ active[k].name = "on_connect"
        /\ stdout' = Append(stdout, Printed("on_connect", ConnectedText \o IntStr(active[k].rc)))
        /\ subscribes' = subscribes \o OnConnectSubscribes(active[k])
        /\ active' = [j \in 1..(Len(active) - 1) |-> IF j < k THEN active[j] ELSE active[j + 1]]
    /\ nOnConnect' = nOnConnect + 1
    /\ UNCHANGED <<script, pc, raised, bagVars, argv, client, mqtt_srv, mqtt_port,
                   connectCalls, link, nConnack, delivered>>

\* (variant) the topic left out of the text
MessageTextNoTopic(m) == AtTopicText \o DataText \o PyStr(m.payload)

\* line 15: "at topic" + msg.topic + " data: " + str(msg.payload)
MessageText(m) == AtTopicText \o m.topic \o DataText \o PyStr(m.payload)

\* (variant) on_message renewing the subscription
OnMessageResubscribes(inv) == <<[by |-> inv.name, topic |-> SubscribeTopic]>>

\* lines 14-15: the subscribe calls on_message makes: none
OnMessageSubscribes(inv) == <<>>

on_message ==
    /\ active # <<>>
    /\ \E k \in DOMAIN active :
        /\ active[k].name = "on_message"
        /\ stdout' = Append(stdout, Printed("on_message", MessageText(active[k].msg)))
        /\ subscribes' = subscribes \o OnMessageSubscribes(active[k])
        /\ active' = [j \in 1..(Len(active) - 1) |-> IF j < k THEN active[j] ELSE active[j + 1]]
    /\ UNCHANGED <<script, pc, raised, bagVars, argv, client, mqtt_srv, mqtt_port,
                   connectCalls, link, nConnack, nOnConnect, delivered>>

NextSub ==
    \/ NewClient \/ SetOnConnect \/ SetOnMessage \/ Defaults \/ IfArgv1 \/ IfArgv2
    \/ Connect \/ ConnectRaises \/ LoopForever
    \/ RecvConnack \/ RecvPublish \/ ConnectionLost \/ Reconnect
    \/ on_connect \/ on_message

SpecSub == InitSub /\ [][NextSub]_vars

(***************************************************************************)
(* Properties of the bag writers (checked under SpecBag)                   *)
(***************************************************************************)
\* the script has ended and no statement before or in the try block raised:
\* every write statement ran and its write did not fail (the finally block
\* may have raised, before bag.close() was called or in the call)
TryCompleted == pc = "done" /\ raised \in {<<>>, <<"close">>}
TwistRunComplete == script = TwistScript /\ TryCompleted
StringRunComplete == script = StringScript /\ TryCompleted

\* the script has ended and no statement of it raised
RunSucceeded == pc = "done" /\ raised = <<>>

\* 1 + 0.01*k seconds as an exact decimal, for k < 400
NominalStamp(k) == [secs |-> (100 + k) \div 100, nsecs |-> ((100 + k) % 100) * 10000000]

\* a stamp in hundredths of a second, rounded to the nearest
Hundredths(t) == t.secs * 100 + ((t.nsecs + 5000000) \div 10000000)

\* the fixed-velocity writes whose stamp is 1 ns below 1 + 0.01*i s
ShortStamps == {k \in 0..238 : k + 2 <= Len(bag) /\ NSecBetween(bag[k + 2].t, NominalStamp(k)) = 1}

\* C2 as stated: a twist run in which no write fails makes exactly 241
\* writes, all on '/turtle1/cmd_vel': the zero twist at 0 s, then for
\* i = 0..238 the twist (2,0,0),(0,0,2) at 1 + 0.01*i s, then the zero twist
\* at 5 s; the bag is then closed and the script has ended.
C2_ExactStampsThenClosed ==
    TwistRunComplete =>
        /\ writeCalls = 241
        /\ Len(bag) = 241
        /\ \A k \in 1..Len(bag) : bag[k].topic = "/turtle1/cmd_vel"
        /\ bag[1].msg = [linear |-> <<0, 0, 0>>, angular |-> <<0, 0, 0>>]
        /\ bag[1].t = [secs |-> 0, nsecs |-> 0]
        /\ \A k \in 0..238 :
            /\ bag[k + 2].msg = [linear |-> <<2, 0, 0>>, angular |-> <<0, 0, 2>>]
            /\ bag[k + 2].t = NominalStamp(k)
        /\ bag[241].msg = [linear |-> <<0, 0, 0>>, angular |-> <<0, 0, 0>>]
        /\ bag[241].t = [secs |-> 5, nsecs |-> 0]
        /\ closeCalls = 1

\* C2 (amended): a twist run in which no statement raises makes exactly 241
\* writes, all on '/turtle1/cmd_vel': the zero twist at 0 s, then for
\* i = 0..238 the twist (2,0,0),(0,0,2) stamped Time.from_sec(1 + 0.01*i),
\* which is 1 + 0.01*i s or 1 ns below it (1 ns below for 75 of the 239,
\* i = 13 among them), then the zero twist at 5 s; bag.close() is then called
\* once and the script has ended.  In a run whose try block completes and
\* whose finally block raises, the same 241 writes have been made.
C2_TwistBagContents ==
    /\ TwistRunComplete =>
        /\ writeCalls = 241
        /\ Len(bag) = 241
        /\ \A k \in 1..Len(bag) : bag[k].topic = "/turtle1/cmd_vel"
        /\ bag[1].msg = [linear |-> <<0, 0, 0>>, angular |-> <<0, 0, 0>>]
        /\ bag[1].t = [secs |-> 0, nsecs |-> 0]
        /\ \A k \in 0..238 :
            /\ bag[k + 2].msg = [linear |-> <<2, 0, 0>>, angular |-> <<0, 0, 2>>]
            /\ bag[k + 2].t = from_sec(FloatAddInt(1, FloatMulInt(FloatLiteral(1, 100), k)))
            /\ NSecBetween(bag[k + 2].t, NominalStamp(k)) \in {0, 1}
        /\ Cardinality(ShortStamps) = 75
        /\ 13 \in ShortStamps
        /\ bag[241].msg = [linear |-> <<0, 0, 0>>, angular |-> <<0, 0, 0>>]
        /\ bag[241].t = [secs |-> 5, nsecs |-> 0]
    /\ (script = TwistScript /\ RunSucceeded) => closeCalls = 1

\* a twist run that ended with no statement raising
C2_Witness ==
    /\ script = TwistScript /\ RunSucceeded
    /\ Len(bag) = 241 /\ closeCalls = 1
    /\ bag[15].t = [secs |-> 1, nsecs |-> 129999999]

\* C3 as stated: the 239 repeated stamps are exactly 0.01 s apart, the first
\* at 1.0 s and the last at 3.39 s.
C3_ExactSpacingTo339 ==
    TwistRunComplete =>
        /\ bag[2].t = [secs |-> 1, nsecs |-> 0]
        /\ bag[Len(bag) - 1].t = [secs |-> 3, nsecs |-> 390000000]
        /\ \A k \in 2..(Len(bag) - 2) : NSecBetween(bag[k].t, bag[k + 1].t) = 10000000

\* C3 (amended): the 239 repeated stamps are Time.from_sec(1 + 0.01*i) for
\* i = 0..238: the first is exactly 1.0 s, the last is 3.379999999 s (3.38 s
\* less 1 ns), each is 1 + 0.01*i s or 1 ns below it, and consecutive stamps
\* are 0.01 s apart to within 1 ns; in hundredths of a second, rounded, the
\* first is 100 and the last 338.
C3_SpacingTo338 ==
    TwistRunComplete =>
        /\ Len(bag) - 2 = 239
        /\ bag[2].t = [secs |-> 1, nsecs |-> 0]
        /\ bag[Len(bag) - 1].t = [secs |-> 3, nsecs |-> 379999999]
        /\ Hundredths(bag[2].t) = 100
        /\ Hundredths(bag[Len(bag) - 1].t) = 338
        /\ \A k \in 2..(Len(bag) - 1) :
            /\ Hundredths(bag[k].t) = 100 + (k - 2)
            /\ NSecBetween(bag[k].t, NominalStamp(k - 2)) \in {0, 1}
        /\ \A k \in 2..(Len(bag) - 2) :
            NSecBetween(bag[k].t, bag[k + 1].t) \in {9999999, 10000000, 10000001}

\* a complete run in which some neighbouring stamps are not 0.01 s apart
C3_Witness ==
    /\ TwistRunComplete
    /\ Len(bag) = 241
    /\ \E k \in 2..(Len(bag) - 2) : NSecBetween(bag[k].t, bag[k + 1].t) = 9999999
    /\ \E k \in 2..(Len(bag) - 2) : NSecBetween(bag[k].t, bag[k + 1].t) = 10000001

\* C4 as stated: whenever the bag file has been opened, close has been
\* called exactly once by the time the script exits, whatever raised after
\* the open (message construction included).
C4_ClosedOnEveryExit == (pc = "done" /\ opened) => closeCalls = 1

C9_StampsIncrease ==
    script = TwistScript =>
        /\ \A k \in 1..(Len(bag) - 1) : TimeLT(bag[k].t, bag[k + 1].t)
        /\ TwistRunComplete =>
            /\ bag[1].t = [secs |-> 0, nsecs |-> 0]
            /\ bag[Len(bag)].t = [secs |-> 5, nsecs |-> 0]
            /\ \A k \in 2..(Len(bag) - 1) :
                /\ bag[k].msg = [linear |-> <<2, 0, 0>>, angular |-> <<0, 0, 2>>]
                /\ TimeLT(bag[1].t, bag[k].t)
                /\ TimeLT(bag[k].t, bag[Len(bag)].t)

\* a run cut short by a failing write, after a hundred stamps and more
C9_Witness ==
    /\ script = TwistScript /\ pc = "done" /\ raised = <<"body">> /\ closeCalls = 1
    /\ writeCalls = Len(bag) + 1 /\ Len(bag) > 100

(***************************************************************************)
(* Properties of the subscriber (checked under SpecSub)                    *)
(***************************************************************************)
Running(name) == Cardinality({k \in DOMAIN active : active[k].name = name})

\* the print calls on_message made
MessagePrints == SelectSeq(stdout, LAMBDA p : p.by = "on_message")

\* C1: the subscribe calls made are as many as the on_connect invocations
\* run (every CONNACK handled, the first connection and each reconnection
\* alike, is one invocation), each is for 'digitaltwin' and made by
\* on_connect; none is made before the first connection or by on_message.
C1_SubscribePerConnect ==
    /\ Len(subscribes) = nOnConnect
    /\ nOnConnect + Running("on_connect") = nConnack
    /\ \A k \in DOMAIN subscribes :
        subscribes[k] = [by |-> "on_connect", topic |-> DigitalTwin]
    /\ nConnack = 0 => subscribes = <<>>

\* a connection, a message, a reconnection
C1_Witness ==
    nOnConnect = 2 /\ Len(subscribes) = 2 /\ Len(MessagePrints) >= 1

\* C5: connect is called exactly once, before the blocking loop is entered
\* and never again (reconnections do not call it): with no argument host
\* 'localhost' and port 1883, with one argument host argv[1] and port 1883,
\* with two or more host argv[1] and port argv[2]; further arguments are
\* ignored.
C5_ConnectOnce ==
    /\ Len(connectCalls) <= 1
    /\ pc \in {"loop_forever", "loop"} => Len(connectCalls) = 1
    /\ pc \notin {"loop_forever", "loop", "done"} => connectCalls = <<>>
    /\ connectCalls # <<>> =>
        LET c == connectCalls[1] IN
        /\ Len(argv) = 1 => c.host = "localhost" /\ c.port = [type |-> "int", int |-> 1883, str |-> ""]
        /\ Len(argv) = 2 => c.host = argv[2] /\ c.port = [type |-> "int", int |-> 1883, str |-> ""]
        /\ Len(argv) >= 3 => c.host = argv[2] /\ c.port.str = argv[3] /\ c.port.type = "str"

\* three arguments, the loop entered and a reconnection handled
C5_Witness == pc = "loop" /\ Len(argv) = 4 /\ nConnack = 2 /\ Len(connectCalls) = 1

\* C10 as stated: the port passed to connect is an int in every case.
C10_PortIsInt == \A k \in DOMAIN connectCalls : connectCalls[k].port.type = "int"

\* bytes that are all printable ASCII other than the single quote and the
\* backslash: str() shows them as they are
PlainBytes(data) ==
    \A k \in DOMAIN data : data[k] >= 32 /\ data[k] < 127 /\ data[k] \notin {SQUOTE, BACKSLASH}

\* bytes holding a control or non-ASCII byte: str() shows that byte escaped
EscapedBytes(data) == \E k \in DOMAIN data : data[k] < 32 \/ data[k] >= 127

LineBreaks(text) == Cardinality({k \in DOMAIN text : text[k] = LF})

\* C7 as stated: every message delivered produces exactly one output line,
\* which contains the message's topic and payload, for any topic and payload.
C7_OneLineWithPayload ==
    /\ Len(MessagePrints) + Running("on_message") = Len(delivered)
    /\ \A k \in DOMAIN MessagePrints :
        /\ LineCount(MessagePrints[k].text) = 1
        /\ Contains(MessagePrints[k].text, delivered[k].topic)
        /\ Contains(MessagePrints[k].text, delivered[k].payload.data)

\* C7 (amended): every message delivered to on_message produces exactly one
\* print call, whose text is 'at topic' + topic + ' data: ' + str(payload),
\* for any topic and payload.  The text contains the topic as it is, and the
\* payload as str() gives it: a str as it is, bytes as their b'...' literal.
\* That literal holds the payload's bytes as they are whenever all of them
\* are printable ASCII other than the single quote and the backslash, and
\* does not hold them when any of them is a control or non-ASCII byte.
\* The print is one output line unless the topic or a str payload holds a
\* line break.  The prints come in dispatch order; on_message makes no
\* subscribe call and leaves the subscriber's state (callbacks, host, port)
\* as it was.
C7_OnePrintPerMessage ==
    /\ Len(MessagePrints) + Running("on_message") = Len(delivered)
    /\ \A k \in DOMAIN MessagePrints :
        LET m    == delivered[k]
            text == MessagePrints[k].text
            shown == IF m.payload.type = "bytes" THEN BytesRepr(m.payload.data)
                     ELSE m.payload.data
        IN  /\ text = AtTopicText \o m.topic \o DataText \o shown
            /\ Contains(text, m.topic)
            /\ Contains(text, shown)
            /\ m.payload.type = "str" => shown = m.payload.data
            /\ (m.payload.type = "bytes" /\ PlainBytes(m.payload.data))
                   => Contains(shown, m.payload.data)
            /\ (m.payload.type = "bytes" /\ EscapedBytes(m.payload.data))
                   => ~Contains(shown, m.payload.data)
            /\ LineCount(text) = 1 + LineBreaks(m.topic)
                   + (IF m.payload.type = "str" THEN LineBreaks(m.payload.data) ELSE 0)
    /\ \A k \in DOMAIN subscribes : subscribes[k].by # "on_message"
    /\ Len(subscribes) = nOnConnect
    /\ pc = "loop" =>
        /\ client = [created |-> TRUE, on_connect |-> "on_connect", on_message |-> "on_message"]
        /\ mqtt_srv = connectCalls[1].host
        /\ mqtt_port = connectCalls[1].port

\* two messages printed: bytes with a line break, shown escaped on one line,
\* and a str with a line break, printed on two lines
C7_Witness ==
    /\ Len(MessagePrints) = 2
    /\ \E k \in DOMAIN MessagePrints :
        /\ delivered[k].payload = [type |-> "bytes", data |-> <<97, LF, 98>>]
        /\ delivered[k].topic = DigitalTwin
        /\ LineCount(MessagePrints[k].text) = 1
        /\ ~Contains(MessagePrints[k].text, delivered[k].payload.data)
    /\ \E k \in DOMAIN MessagePrints :
        /\ delivered[k].payload = [type |-> "str", data |-> <<97, LF, 98>>]
        /\ LineCount(MessagePrints[k].text) = 2

\* C8: the callbacks run inside the blocking loop, one at a time: at most one
\* invocation is in progress, the next is dispatched only after it has
\* returned, and none runs before loop_forever has been entered.
C8_CallbacksSerial ==
    /\ Len(active) <= 1
    /\ pc # "loop" =>
        /\ active = <<>>
        /\ nConnack = 0 /\ nOnConnect = 0
        /\ delivered = <<>> /\ stdout = <<>> /\ subscribes = <<>>

\* on_message in progress after an on_connect has returned
C8_Witness ==
    /\ pc = "loop"
    /\ Len(active) = 1 /\ active[1].name = "on_message"
    /\ nOnConnect >= 1

====
